---- MODULE Spec2Model ----
(***************************************************************************)
(* The concurrent job dispatcher of cvmfs/upload.cc (upload::Spooler):     *)
(* the bounded FIFO job queue guarded by job_queue_mutex_, the three       *)
(* condition variables, the atomic counters, the producers calling Copy,   *)
(* Process, EndOfTransaction, WaitForUpload, SetCallback and               *)
(* UnsetCallback, and the push workers calling AcquireJob and              *)
(* JobFinishedCallback.                                                    *)
(*                                                                         *)
(* Granularity.  A critical section of Schedule or AcquireJob reads and    *)
(* writes only state that is touched under job_queue_mutex_ (the queue,    *)
(* the not_full / not_empty wait sets) plus one atomic increment, so it is *)
(* one step, enabled when the mutex is free.  JobFinishedCallback holds no *)
(* lock: each of its atomic operations is a step of its own.  In           *)
(* WaitForUpload the read of jobs_pending_ and the pthread_cond_wait are   *)
(* two steps, with the mutex held in between.                              *)
(***************************************************************************)
EXTENDS Integers, Sequences, FiniteSets

VARIABLES
  max_pending_jobs,          \* spooler_definition_.max_pending_jobs
  number_of_workers,         \* GetNumberOfWorkers()
  job_queue,                 \* job_queue_
  jobs_pending,              \* jobs_pending_
  jobs_failed,               \* jobs_failed_
  death_sentences_executed,  \* death_sentences_executed_
  transaction_ends,          \* transaction_ends_
  callback,                  \* callback_ != NULL
  mutex,                     \* owner of job_queue_mutex_, or Free
  pc,                        \* position of every thread
  job,                       \* the Job* a thread holds
  eot_i,                     \* loop variable i of EndOfTransaction, per caller
  running,                   \* per worker: its loop has met no death sentence yet
  enqueued,                  \* history: number of jobs pushed so far
  submitted,                 \* history: Copy/Process jobs pushed so far
  dequeue_log,               \* history: seq numbers in the order of removal
  callbacks_fired,           \* history: invocations of (*callback_)(...)
  last_callback,             \* history: return_code passed to the latest invocation
  teardown_count,            \* history: invocations of TearDown()
  reports,                   \* history: per pushed job, its JobFinishedCallback calls
  first_death,               \* history: seq of the first death sentence pushed, 0 if none
  eot_calls,                 \* history: EndOfTransaction calls that passed the assert
  orderly,                   \* history: every submission returned before the one EndOfTransaction began
  definition_string,         \* the spooler_description argument of Construct
  spooler_definition,        \* the SpoolerDefinition parsed from it
  construct_pc,              \* position inside Spooler::Construct
  construct_result           \* what Construct handed back

vars == <<max_pending_jobs, number_of_workers, job_queue, jobs_pending,
          jobs_failed, death_sentences_executed, transaction_ends, callback,
          mutex, pc, job, eot_i, running, enqueued, submitted, dequeue_log,
          callbacks_fired, last_callback, teardown_count, reports,
          first_death, eot_calls, orderly, definition_string, spooler_definition,
          construct_pc, construct_result>>

(* ------------------------------ bounds -------------------------------- *)

MaxWorkers == 2

MaxCapacity == 3

NumClients == 2

MaxJobs == 2

\* Tokens in the driver part of a definition string.
MaxUpstreamTokens == 3

\* Comma-separated components of a definition string.
MaxComponents == 4

(* ------------------------------ threads ------------------------------- *)

Workers == 1..MaxWorkers

Clients == (MaxWorkers + 1)..(MaxWorkers + NumClients)

Threads == Workers \cup Clients

Free == 0

NoThread == 0

\* A failed assert() aborts the process: every thread is gone.
Abort == [t \in Threads |-> "aborted"]

aborted == \E t \in Threads : pc[t] = "aborted"

(* ------------------------------- jobs --------------------------------- *)

NoCode == -1

NoJob == [seq |-> 0, kind |-> "none", successful |-> FALSE, return_code |-> NoCode]

StorageCopyJob == [seq |-> 0, kind |-> "copy", successful |-> FALSE, return_code |-> NoCode]

StorageCompressionJob == [seq |-> 0, kind |-> "compression", successful |-> FALSE, return_code |-> NoCode]

DeathSentenceJob == [seq |-> 0, kind |-> "death", successful |-> TRUE, return_code |-> 0]

IsSuccessful(j) == j.successful

IsDeathSentenceJob(j) == j.kind = "death"

IsCompressionJob(j) == j.kind = "compression"

IsCopyJob(j) == j.kind = "copy"

\* What a backend driver hands back for a job: success with code 0, or
\* failure with a non-zero code.
BackendResults == {[successful |-> TRUE, return_code |-> 0],
                   [successful |-> FALSE, return_code |-> 1]}

(* ------------------------------ atomics ------------------------------ *)

atomic_inc32(x) == x + 1

\* Mutant of atomic_dec32: the decrement is forgotten.
atomic_dec32_forgotten(x) == x

atomic_dec32(x) == x - 1

(* ----------------------- condition variables -------------------------- *)

\* The threads blocked in pthread_cond_wait on each condition variable.
job_queue_cond_not_full == {t \in Threads : pc[t] = "wait_not_full"}

job_queue_cond_not_empty == {t \in Threads : pc[t] = "wait_not_empty"}

jobs_all_done == {t \in Threads : pc[t] = "wait_all_done"}

\* pthread_cond_signal wakes one of the waiters, if there is any.
SignalChoices(waiters) == IF waiters = {} THEN {NoThread} ELSE waiters

(* ------------------------- definition parser -------------------------- *)

\* Strings are sequences of one-character strings.
LocalName == <<"l", "o", "c", "a", "l">>

RiakName == <<"r", "i", "a", "k">>

\* The pieces the driver part of a definition string is put together from.
Tokens == {LocalName, RiakName, <<":">>, <<"/">>, <<"s">>}

\* The pipe parts of a definition string.
PipeNames == {<<>>, <<"o">>, <<":", "i">>}

RECURSIVE TokenStrings(_)
\* All concatenations of at most n tokens.
TokenStrings(n) ==
  IF n = 0 THEN {<<>>}
  ELSE LET shorter == TokenStrings(n - 1)
       IN  shorter \cup {s \o t : s \in shorter, t \in Tokens}

RECURSIVE JoinedStrings(_)
\* A driver part followed by n - 1 pipe parts, joined by commas.
JoinedStrings(n) ==
  IF n = 1 THEN TokenStrings(MaxUpstreamTokens)
  ELSE {s \o <<",">> \o p : s \in JoinedStrings(n - 1), p \in PipeNames}

\* The definition strings Construct is called with.
DefinitionStrings == UNION {JoinedStrings(n) : n \in 1..MaxComponents}

\* SplitString's max_chunks when the caller leaves it out: no limit.
NoLimit == 0

\* The max_chunks the constructor passes for the driver part.
UpstreamChunks == 2

RECURSIVE SplitScan(_, _, _, _, _, _, _)
\* The loop of SplitString: i runs over the characters, marker is the start
\* of the current chunk, chunks counts the chunks begun so far.
SplitScan(str, delim, max_chunks, i, marker, chunks, result) ==
  IF i > Len(str)
  THEN Append(result, SubSeq(str, marker, Len(str)))
  ELSE IF str[i] = delim
       THEN LET cut == Append(result, SubSeq(str, marker, i - 1))
            IN  IF chunks + 1 = max_chunks
                THEN Append(cut, SubSeq(str, i + 1, Len(str)))
                ELSE SplitScan(str, delim, max_chunks, i + 1, i + 1,
                               chunks + 1, cut)
       ELSE SplitScan(str, delim, max_chunks, i + 1, marker, chunks, result)

\* SplitString(str, delim, max_chunks): the chunks of str between the
\* delimiters; with max_chunks > 0 the last chunk keeps the rest of the
\* string, delimiters included.  NoLimit stands for an omitted max_chunks.
SplitString(str, delim, max_chunks) ==
  IF max_chunks = 1 THEN <<str>>
  ELSE SplitScan(str, delim, max_chunks, 1, 1, 1, <<>>)

\* A field of SpoolerDefinition the constructor has not assigned.
Unassigned == "unassigned"

\* Mutant of ValidComponentCount: surplus components are tolerated.
ValidComponentCountAtLeast(n) == n >= 3

\* components.size() != 3 is the first validation failure.
ValidComponentCount(n) == n = 3

\* upstream.size() != 2 is the second validation failure.
ValidUpstreamCount(n) == n = 2

\* The driver names the constructor recognises.
DriverType(name) ==
  IF name = LocalName THEN "Local"
  ELSE IF name = RiakName THEN "Riak"
  ELSE Unassigned

\* SpoolerDefinition::SpoolerDefinition(definition_string, max_pending_jobs)
SpoolerDefinition(str, max_pending) ==
  LET invalid == [max_pending_jobs    |-> max_pending,
                  valid               |-> FALSE,
                  driver_type         |-> Unassigned,
                  spooler_description |-> Unassigned,
                  paths_out_pipe      |-> Unassigned,
                  digests_in_pipe     |-> Unassigned]
      components == SplitString(str, ",", NoLimit)
      upstream == SplitString(components[1], ":", UpstreamChunks)
  IN  IF ~ValidComponentCount(Len(components)) THEN invalid
      ELSE IF ~ValidUpstreamCount(Len(upstream)) THEN invalid
      ELSE IF DriverType(upstream[1]) = Unassigned THEN invalid
      ELSE [max_pending_jobs    |-> max_pending,
            valid               |-> TRUE,
            driver_type         |-> DriverType(upstream[1]),
            spooler_description |-> upstream[2],
            paths_out_pipe      |-> components[2],
            digests_in_pipe     |-> components[3]]

\* SpoolerDefinition::IsValid()
IsValid(def) == def.valid

\* No SpoolerDefinition has been built yet.
NoDefinition == [max_pending_jobs    |-> 0,
                 valid               |-> FALSE,
                 driver_type         |-> Unassigned,
                 spooler_description |-> Unassigned,
                 paths_out_pipe      |-> Unassigned,
                 digests_in_pipe     |-> Unassigned]

\* The definition string of the dispatcher whose job queue is modelled.
DefaultDefinition == LocalName \o <<":", "/", "s", ",", "o", ",", "i">>

(* ------------------------------- Init --------------------------------- *)

\* Spooler::Spooler: no callback, transaction not ended, counters at zero,
\* an empty queue and a free mutex; nothing has happened yet.
Constructed ==
  /\ job_queue = <<>>
  /\ jobs_pending = 0
  /\ jobs_failed = 0
  /\ death_sentences_executed = 0
  /\ transaction_ends = FALSE
  /\ callback = FALSE
  /\ mutex = Free
  /\ job = [t \in Threads |-> NoJob]
  /\ eot_i = [t \in Clients |-> 0]
  /\ running = [w \in Workers |-> TRUE]
  /\ enqueued = 0
  /\ submitted = 0
  /\ dequeue_log = <<>>
  /\ callbacks_fired = 0
  /\ last_callback = NoCode
  /\ teardown_count = 0
  /\ reports = <<>>
  /\ first_death = 0
  /\ eot_calls = 0
  /\ orderly = TRUE

\* SpawnPushWorkers: the first `workers' push workers run their loop.
SpawnPushWorkers(workers) ==
  [t \in Threads |->
     IF t \in Clients THEN "idle"
     ELSE IF t <= workers THEN "acquire" ELSE "unspawned"]

\* The dispatcher right after a successful Spooler::Construct.
Init ==
  /\ max_pending_jobs \in {1, MaxCapacity}
  /\ number_of_workers \in 1..MaxWorkers
  /\ Constructed
  /\ pc = SpawnPushWorkers(number_of_workers)
  /\ definition_string = DefaultDefinition
  /\ spooler_definition = SpoolerDefinition(definition_string, max_pending_jobs)
  /\ construct_pc = "done"
  /\ construct_result = "spooler"

construction == <<definition_string, spooler_definition, construct_pc,
                  construct_result>>

config == <<max_pending_jobs, number_of_workers, running, construction>>

counters == <<jobs_pending, jobs_failed, death_sentences_executed>>

cbhist == <<callbacks_fired, last_callback, reports, first_death>>

(* --------------------------- submission API --------------------------- *)

\* Copy/Process calls begun and not yet returned.
InSubmission == {c \in Clients : pc[c] \in {"schedule", "wait_not_full"}
                                   /\ ~IsDeathSentenceJob(job[c])}

\* Spooler::Copy and Spooler::Process: build the job and call Schedule.
Submit(c, j) ==
  /\ pc[c] = "idle"
  /\ submitted + Cardinality(InSubmission) < MaxJobs
  /\ pc' = [pc EXCEPT ![c] = "schedule"]
  /\ job' = [job EXCEPT ![c] = j]
  /\ orderly' = (orderly /\ eot_calls = 0)
  /\ UNCHANGED <<config, job_queue, counters, transaction_ends, callback,
                 mutex, eot_i, enqueued, submitted, dequeue_log,
                 cbhist, teardown_count, eot_calls>>

Copy(c) == Submit(c, StorageCopyJob)

Process(c) == Submit(c, StorageCompressionJob)

\* Spooler::EndOfTransaction, the assert and the first loop iteration.
EndOfTransaction(c) ==
  /\ pc[c] = "idle"
  /\ IF transaction_ends
     THEN /\ pc' = Abort
          /\ UNCHANGED <<job, eot_i, eot_calls, orderly>>
     ELSE /\ pc' = [pc EXCEPT ![c] = "schedule"]
          /\ job' = [job EXCEPT ![c] = DeathSentenceJob]
          /\ eot_i' = [eot_i EXCEPT ![c] = 0]
          /\ eot_calls' = eot_calls + 1
          /\ orderly' = (orderly /\ eot_calls = 0 /\ InSubmission = {})
  /\ UNCHANGED <<config, job_queue, counters, transaction_ends, callback,
                 mutex, enqueued, submitted, dequeue_log, cbhist,
                 teardown_count>>

\* Spooler::EndOfTransaction, after the loop: transaction_ends_ = true.
EndOfTransactionReturn(c) ==
  /\ pc[c] = "eot_end"
  /\ transaction_ends' = TRUE
  /\ pc' = [pc EXCEPT ![c] = "idle"]
  /\ eot_i' = [eot_i EXCEPT ![c] = 0]
  /\ UNCHANGED <<config, job_queue, counters, callback, mutex, job,
                 enqueued, submitted, dequeue_log, cbhist,
                 teardown_count, eot_calls, orderly>>

(* ------------------------------ Schedule ------------------------------ *)

\* Mutant of QueueFull: an off-by-one in the capacity test.
QueueFullOffByOne(q, max) == Len(q) > max

\* The loop condition of Schedule.
QueueFull(q, max) == Len(q) >= max

\* Mutant of Push: the job is put at the head of the queue.
PushFront(q, j, n) == <<[j EXCEPT !.seq = n]>> \o q

\* job_queue_.push(job); seq records the position in the order of pushes.
Push(q, j, n) == Append(q, [j EXCEPT !.seq = n])

\* Where Schedule returns to: Copy/Process return to the caller, and
\* EndOfTransaction goes round its loop (i counts the death sentences).
AfterSchedule(c) ==
  IF IsDeathSentenceJob(job[c])
  THEN IF eot_i[c] + 1 < number_of_workers THEN "schedule" ELSE "eot_end"
  ELSE "idle"

\* Spooler::Schedule, the critical section under job_queue_mutex_: either
\* the queue is full and the thread waits on job_queue_cond_not_full_, or it
\* pushes, increments jobs_pending_ and broadcasts job_queue_cond_not_empty_.
Schedule(c) ==
  /\ pc[c] = "schedule"
  /\ mutex = Free
  /\ IF QueueFull(job_queue, max_pending_jobs)
     THEN /\ pc' = [pc EXCEPT ![c] = "wait_not_full"]
          /\ UNCHANGED <<job_queue, jobs_pending, job, eot_i, enqueued,
                         submitted, reports, first_death>>
     ELSE /\ job_queue' = Push(job_queue, job[c], enqueued + 1)
          /\ jobs_pending' = atomic_inc32(jobs_pending)
          /\ enqueued' = enqueued + 1
          /\ reports' = Append(reports, 0)
          /\ first_death' = IF IsDeathSentenceJob(job[c]) /\ first_death = 0
                            THEN enqueued + 1 ELSE first_death
          /\ submitted' = IF IsDeathSentenceJob(job[c]) THEN submitted ELSE submitted + 1
          /\ pc' = [t \in Threads |->
                      IF t = c THEN AfterSchedule(c)
                      ELSE IF t \in job_queue_cond_not_empty THEN "acquire"
                      ELSE pc[t]]
          /\ eot_i' = IF IsDeathSentenceJob(job[c])
                      THEN [eot_i EXCEPT ![c] = eot_i[c] + 1] ELSE eot_i
          /\ job' = IF AfterSchedule(c) = "schedule" THEN job
                    ELSE [job EXCEPT ![c] = NoJob]
  /\ UNCHANGED <<config, jobs_failed, death_sentences_executed,
                 transaction_ends, callback, mutex, dequeue_log,
                 callbacks_fired, last_callback, teardown_count, eot_calls,
                 orderly>>

(* ----------------------------- AcquireJob ----------------------------- *)

\* Mutant of desired_free_slots: "not full" is never signalled.
desired_free_slots_none(max) == 0

\* Mutant of desired_free_slots: the half is rounded up.
desired_free_slots_rounded_up(max) == (max + 1) \div 2 + 1

\* desired_free_slots of AcquireJob.
desired_free_slots(max) == max \div 2 + 1

\* Mutant of Front: the newest job is taken instead of the oldest.
FrontNewest(q) == q[Len(q)]

\* job_queue_.front()
Front(q) == Head(q)

\* job_queue_.pop()
Pop(q) == Tail(q)

\* The worker loop after AcquireJob: a death sentence is reported at once,
\* any other job is executed first.
AfterAcquire(j) == IF IsDeathSentenceJob(j) THEN "job_finished" ELSE "execute"

\* Spooler::AcquireJob, the critical section under job_queue_mutex_.
AcquireJob(w) ==
  /\ pc[w] = "acquire"
  /\ mutex = Free
  /\ IF job_queue = <<>>
     THEN /\ pc' = [pc EXCEPT ![w] = "wait_not_empty"]
          /\ UNCHANGED <<job_queue, job, dequeue_log, running>>
     ELSE /\ job' = [job EXCEPT ![w] = Front(job_queue)]
          /\ job_queue' = Pop(job_queue)
          /\ dequeue_log' = Append(dequeue_log, Front(job_queue).seq)
          /\ running' = [running EXCEPT ![w] = ~IsDeathSentenceJob(Front(job_queue))]
          /\ \E wake \in IF Len(Pop(job_queue)) < desired_free_slots(max_pending_jobs)
                         THEN SignalChoices(job_queue_cond_not_full)
                         ELSE {NoThread} :
               pc' = [t \in Threads |->
                        IF t = w THEN AfterAcquire(Front(job_queue))
                        ELSE IF t = wake THEN "schedule"
                        ELSE pc[t]]
  /\ UNCHANGED <<max_pending_jobs, number_of_workers, construction,
                 counters, transaction_ends, callback, mutex, eot_i,
                 enqueued, submitted, cbhist, teardown_count,
                 eot_calls, orderly>>

\* The worker executes the job through the backend driver and sets the
\* job's outcome fields.
Execute(w) ==
  /\ pc[w] = "execute"
  /\ \E r \in BackendResults :
       job' = [job EXCEPT ![w].successful = r.successful,
                          ![w].return_code = r.return_code]
  /\ pc' = [pc EXCEPT ![w] = "job_finished"]
  /\ UNCHANGED <<config, job_queue, counters, transaction_ends, callback,
                 mutex, eot_i, enqueued, submitted, dequeue_log,
                 cbhist, teardown_count, eot_calls, orderly>>

(* ------------------------ JobFinishedCallback ------------------------- *)

\* Mutant of CountFailure: every reported job is counted as failed.
CountFailureAlways(failed, j) == failed + 1

\* jobs_failed_ after the success check of JobFinishedCallback.
CountFailure(failed, j) == IF IsSuccessful(j) THEN failed ELSE atomic_inc32(failed)

\* Mutant of InvokesCallback: the callback is called for death sentences too.
InvokesCallbackForAll(cb, j) == cb

\* Whether InvokeExternalCallback calls (*callback_) for the job.
InvokesCallback(cb, j) == cb /\ (IsCompressionJob(j) \/ IsCopyJob(j))

\* Spooler::JobFinishedCallback up to and including InvokeExternalCallback.
JobFinishedCallback(w) ==
  /\ pc[w] = "job_finished"
  /\ jobs_failed' = CountFailure(jobs_failed, job[w])
  /\ reports' = [reports EXCEPT ![job[w].seq] = @ + 1]
  /\ UNCHANGED first_death
  /\ IF InvokesCallback(callback, job[w])
     THEN /\ callbacks_fired' = callbacks_fired + 1
          /\ last_callback' = job[w].return_code
     ELSE UNCHANGED <<callbacks_fired, last_callback>>
  /\ pc' = [pc EXCEPT ![w] = IF IsDeathSentenceJob(job[w])
                             THEN "death_inc" ELSE "pending_dec"]
  /\ UNCHANGED <<config, job_queue, jobs_pending, death_sentences_executed,
                 transaction_ends, callback, mutex, job, eot_i, enqueued, submitted, dequeue_log, teardown_count, eot_calls,
                 orderly>>

\* atomic_inc32(&death_sentences_executed_)
DeathSentenceInc(w) ==
  /\ pc[w] = "death_inc"
  /\ death_sentences_executed' = atomic_inc32(death_sentences_executed)
  /\ pc' = [pc EXCEPT ![w] = "death_read"]
  /\ UNCHANGED <<config, job_queue, jobs_pending, jobs_failed,
                 transaction_ends, callback, mutex, job, eot_i, enqueued, submitted, dequeue_log, cbhist, teardown_count,
                 eot_calls, orderly>>

\* Mutant of AllWorkersKilled: teardown at the first death sentence.
AllWorkersKilledEarly(executed, workers) == executed >= 1

\* The test that guards TearDown().
AllWorkersKilled(executed, workers) == executed = workers

\* if (atomic_read32(&death_sentences_executed_) == GetNumberOfWorkers()) TearDown();
DeathSentenceRead(w) ==
  /\ pc[w] = "death_read"
  /\ teardown_count' = IF AllWorkersKilled(death_sentences_executed, number_of_workers)
                       THEN teardown_count + 1 ELSE teardown_count
  /\ pc' = [pc EXCEPT ![w] = "pending_dec"]
  /\ UNCHANGED <<config, job_queue, counters, transaction_ends, callback,
                 mutex, job, eot_i, enqueued, submitted, dequeue_log,
                 cbhist, eot_calls, orderly>>

\* delete job; atomic_dec32(&jobs_pending_)
PendingDec(w) ==
  /\ pc[w] = "pending_dec"
  /\ jobs_pending' = atomic_dec32(jobs_pending)
  /\ job' = [job EXCEPT ![w] = NoJob]
  /\ pc' = [pc EXCEPT ![w] = "pending_read"]
  /\ UNCHANGED <<config, job_queue, jobs_failed, death_sentences_executed,
                 transaction_ends, callback, mutex, eot_i, enqueued, submitted, dequeue_log, cbhist, teardown_count,
                 eot_calls, orderly>>

\* The worker loop after reporting: a worker that reported a death sentence
\* terminates, any other goes back to AcquireJob.
AfterReport(w) == IF running[w] THEN "acquire" ELSE "terminated"

\* if (atomic_read32(&jobs_pending_) == 0) pthread_cond_signal(&jobs_all_done_);
PendingRead(w) ==
  /\ pc[w] = "pending_read"
  /\ \E wake \in IF jobs_pending = 0 THEN SignalChoices(jobs_all_done)
                 ELSE {NoThread} :
       pc' = [t \in Threads |->
                IF t = w THEN AfterReport(w)
                ELSE IF t = wake THEN "wait_for_upload"
                ELSE pc[t]]
  /\ UNCHANGED <<config, job_queue, counters, transaction_ends, callback,
                 mutex, job, eot_i, enqueued, submitted, dequeue_log,
                 cbhist, teardown_count, eot_calls, orderly>>

(* --------------------------- WaitForUpload ---------------------------- *)

\* The loop condition of WaitForUpload.
JobsArePending(pending) == pending > 0

\* A client calls Spooler::WaitForUpload.
WaitForUpload(c) ==
  /\ pc[c] = "idle"
  /\ pc' = [pc EXCEPT ![c] = "wait_for_upload"]
  /\ UNCHANGED <<config, job_queue, counters, transaction_ends, callback,
                 mutex, job, eot_i, enqueued, submitted, dequeue_log,
                 cbhist, teardown_count, eot_calls, orderly>>

\* Spooler::WaitForUpload: lock the mutex and test the loop condition.  When
\* jobs are pending the thread goes on, holding the mutex, to
\* pthread_cond_wait; otherwise it unlocks and returns.
WaitForUploadCheck(c) ==
  /\ pc[c] = "wait_for_upload"
  /\ mutex = Free
  /\ IF JobsArePending(jobs_pending)
     THEN /\ mutex' = c
          /\ pc' = [pc EXCEPT ![c] = "cond_wait_all_done"]
     ELSE /\ mutex' = Free
          /\ pc' = [pc EXCEPT ![c] = "idle"]
  /\ UNCHANGED <<config, job_queue, counters, transaction_ends, callback,
                 job, eot_i, enqueued, submitted, dequeue_log,
                 cbhist, teardown_count, eot_calls, orderly>>

\* pthread_cond_wait(&jobs_all_done_, &job_queue_mutex_): release and block.
WaitForUploadWait(c) ==
  /\ pc[c] = "cond_wait_all_done"
  /\ mutex = c
  /\ mutex' = Free
  /\ pc' = [pc EXCEPT ![c] = "wait_all_done"]
  /\ UNCHANGED <<config, job_queue, counters, transaction_ends, callback,
                 job, eot_i, enqueued, submitted, dequeue_log,
                 cbhist, teardown_count, eot_calls, orderly>>

(* -------------------------- spurious wake-ups ------------------------- *)

\* Where a thread woken from pthread_cond_wait goes on: it takes the mutex
\* again and tests its loop condition.
AfterWakeup(loc) ==
  IF loc = "wait_not_full" THEN "schedule"
  ELSE IF loc = "wait_not_empty" THEN "acquire"
  ELSE "wait_for_upload"

\* pthread_cond_wait may return without any signal.
SpuriousWakeup(t) ==
  /\ pc[t] \in {"wait_not_full", "wait_not_empty", "wait_all_done"}
  /\ pc' = [pc EXCEPT ![t] = AfterWakeup(pc[t])]
  /\ UNCHANGED <<config, job_queue, counters, transaction_ends, callback,
                 mutex, job, eot_i, enqueued, submitted, dequeue_log,
                 cbhist, teardown_count, eot_calls, orderly>>

(* ----------------------- SetCallback / UnsetCallback ------------------ *)

\* Registration happens before any job is submitted (the contract of
\* SetCallback/UnsetCallback: they are not protected against in-flight jobs).
BeforeSubmissions == eot_calls = 0 /\ enqueued = 0 /\ InSubmission = {}

\* Mutant of NoCallbackRegistered: the assert is missing.
NoCallbackRegisteredUnchecked(cb) == TRUE

\* assert (callback_ == NULL)
NoCallbackRegistered(cb) == ~cb

SetCallback(c) ==
  /\ pc[c] = "idle"
  /\ BeforeSubmissions
  /\ IF NoCallbackRegistered(callback)
     THEN callback' = TRUE /\ UNCHANGED pc
     ELSE pc' = Abort /\ UNCHANGED callback
  /\ UNCHANGED <<config, job_queue, counters, transaction_ends, mutex,
                 job, eot_i, enqueued, submitted, dequeue_log, cbhist,
                 teardown_count, eot_calls, orderly>>

UnsetCallback(c) ==
  /\ pc[c] = "idle"
  /\ BeforeSubmissions
  /\ callback' = FALSE
  /\ UNCHANGED <<config, job_queue, counters, transaction_ends, mutex, pc,
                 job, eot_i, enqueued, submitted, dequeue_log,
                 cbhist, teardown_count, eot_calls, orderly>>

(* ------------------------------- Next --------------------------------- *)

Next ==
  \/ \E c \in Clients : Copy(c)
  \/ \E c \in Clients : Process(c)
  \/ \E c \in Clients : EndOfTransaction(c)
  \/ \E c \in Clients : EndOfTransactionReturn(c)
  \/ \E c \in Clients : Schedule(c)
  \/ \E c \in Clients : WaitForUpload(c)
  \/ \E c \in Clients : WaitForUploadCheck(c)
  \/ \E c \in Clients : WaitForUploadWait(c)
  \/ \E c \in Clients : SetCallback(c)
  \/ \E c \in Clients : UnsetCallback(c)
  \/ \E w \in Workers : AcquireJob(w)
  \/ \E w \in Workers : Execute(w)
  \/ \E w \in Workers : JobFinishedCallback(w)
  \/ \E w \in Workers : DeathSentenceInc(w)
  \/ \E w \in Workers : DeathSentenceRead(w)
  \/ \E w \in Workers : PendingDec(w)
  \/ \E w \in Workers : PendingRead(w)
  \/ \E t \in Threads : SpuriousWakeup(t)

Spec == Init /\ [][Next]_vars

(* ------------------- orderly clients, fair scheduling ----------------- *)

\* The clients keep the contract: every Copy/Process returns before the one
\* EndOfTransaction is called, and no assert fails.  A blocked thread is
\* woken by a signal or a broadcast only: progress may not rest on a
\* spurious wake-up.
OrderlyNext ==
  \/ \E c \in Clients : Copy(c) /\ orderly'
  \/ \E c \in Clients : Process(c) /\ orderly'
  \/ \E c \in Clients : EndOfTransaction(c) /\ orderly' /\ ~aborted'
  \/ \E c \in Clients : EndOfTransactionReturn(c)
  \/ \E c \in Clients : Schedule(c)
  \/ \E c \in Clients : WaitForUpload(c)
  \/ \E c \in Clients : WaitForUploadCheck(c)
  \/ \E c \in Clients : WaitForUploadWait(c)
  \/ \E c \in Clients : SetCallback(c) /\ ~aborted'
  \/ \E c \in Clients : UnsetCallback(c)
  \/ \E w \in Workers : AcquireJob(w)
  \/ \E w \in Workers : Execute(w)
  \/ \E w \in Workers : JobFinishedCallback(w)
  \/ \E w \in Workers : DeathSentenceInc(w)
  \/ \E w \in Workers : DeathSentenceRead(w)
  \/ \E w \in Workers : PendingDec(w)
  \/ \E w \in Workers : PendingRead(w)

\* A thread that is inside a call takes its next step when it can (the
\* scheduler is fair and backend calls terminate).  Whether and when a
\* client makes a new call is up to the client.
Fairness ==
  /\ \A c \in Clients : /\ WF_vars(Schedule(c))
                        /\ WF_vars(EndOfTransactionReturn(c))
                        /\ WF_vars(WaitForUploadCheck(c))
                        /\ WF_vars(WaitForUploadWait(c))
  /\ \A w \in Workers : /\ WF_vars(AcquireJob(w))
                        /\ WF_vars(Execute(w))
                        /\ WF_vars(JobFinishedCallback(w))
                        /\ WF_vars(DeathSentenceInc(w))
                        /\ WF_vars(DeathSentenceRead(w))
                        /\ WF_vars(PendingDec(w))
                        /\ WF_vars(PendingRead(w))

FairSpec == Init /\ [][OrderlyNext]_vars /\ Fairness

(* ---------------- concurrent clients, fair scheduling ----------------- *)

\* The clients are producers that commit no misuse (no submission begins
\* once transaction_ends_ is set, EndOfTransaction is called once), but
\* submissions and EndOfTransaction may overlap.  Callback registration and
\* WaitForUpload play no part in the traffic between producers and workers
\* and are left out, as are spurious wake-ups.
ConcurrentNext ==
  \/ \E c \in Clients : Copy(c) /\ ~transaction_ends
  \/ \E c \in Clients : Process(c) /\ ~transaction_ends
  \/ \E c \in Clients : EndOfTransaction(c) /\ eot_calls = 0
  \/ \E c \in Clients : EndOfTransactionReturn(c)
  \/ \E c \in Clients : Schedule(c)
  \/ \E w \in Workers : AcquireJob(w)
  \/ \E w \in Workers : Execute(w)
  \/ \E w \in Workers : JobFinishedCallback(w)
  \/ \E w \in Workers : DeathSentenceInc(w)
  \/ \E w \in Workers : DeathSentenceRead(w)
  \/ \E w \in Workers : PendingDec(w)
  \/ \E w \in Workers : PendingRead(w)

ConcurrentSpec == Init /\ [][ConcurrentNext]_vars /\ Fairness

(* --------------------------- Spooler::Construct ----------------------- *)

\* Everything Construct leaves as the constructor set it.
job_queue_state == <<max_pending_jobs, number_of_workers, running, job_queue,
                     counters, transaction_ends, callback, mutex, job, eot_i,
                     enqueued, submitted, dequeue_log, cbhist, teardown_count,
                     eot_calls, orderly>>

\* A call Construct(definition_string, max_pending_jobs) is about to begin.
ConstructInit ==
  /\ definition_string \in DefinitionStrings
  /\ max_pending_jobs \in {1, MaxCapacity}
  /\ number_of_workers = MaxWorkers
  /\ Constructed
  /\ pc = SpawnPushWorkers(0)
  /\ spooler_definition = NoDefinition
  /\ construct_pc = "parse"
  /\ construct_result = "pending"

\* SpoolerDefinition spooler_definition(spooler_description, max_pending_jobs);
ConstructParse ==
  /\ construct_pc = "parse"
  /\ spooler_definition' = SpoolerDefinition(definition_string, max_pending_jobs)
  /\ construct_pc' = "assert_valid"
  /\ UNCHANGED <<job_queue_state, pc, definition_string, construct_result>>

\* assert (spooler_definition.IsValid()); then the switch on driver_type,
\* which finds Local or Riak in every valid definition.
ConstructAssertValid ==
  /\ construct_pc = "assert_valid"
  /\ IF IsValid(spooler_definition)
     THEN /\ construct_pc' = "initialize"
          /\ UNCHANGED <<pc, construct_result>>
     ELSE /\ construct_pc' = "done"
          /\ construct_result' = "aborted"
          /\ pc' = Abort
  /\ UNCHANGED <<job_queue_state, definition_string, spooler_definition>>

\* if (!spooler->Initialize()) { delete spooler; return NULL; } return spooler;
\* Initialize fails when a pthread_*_init or SpawnPushWorkers fails.
Initialize ==
  /\ construct_pc = "initialize"
  /\ \E initialized \in BOOLEAN :
       IF initialized
       THEN /\ construct_result' = "spooler"
            /\ pc' = SpawnPushWorkers(number_of_workers)
       ELSE /\ construct_result' = "NULL"
            /\ UNCHANGED pc
  /\ construct_pc' = "done"
  /\ UNCHANGED <<job_queue_state, definition_string, spooler_definition>>

ConstructNext ==
  \/ ConstructParse
  \/ ConstructAssertValid
  \/ Initialize

ConstructSpec == ConstructInit /\ [][ConstructNext]_vars

\* The characters of a string.
Chars(s) == {s[i] : i \in 1..Len(s)}

\* driver:description,outPipe,inPipe with driver local or riak, written
\* without reference to the way the parser splits: two commas in all, and
\* the string begins with a known driver name and a colon.
WellFormed(s) ==
  /\ Cardinality({i \in 1..Len(s) : s[i] = ","}) = 2
  /\ \E name \in {LocalName, RiakName} :
       /\ Len(s) > Len(name)
       /\ SubSeq(s, 1, Len(name)) = name
       /\ s[Len(name) + 1] = ":"

\* The driver name a driver type is written with.
NameOf(driver_type) == IF driver_type = "Local" THEN LocalName ELSE RiakName

(* ------------------------- derived quantities ------------------------- *)

ActiveWorkers == {w \in Workers : w <= number_of_workers}

\* Workers that removed a job from the queue and have not yet decremented
\* jobs_pending_ for it.
WorkersHoldingJob ==
  {w \in Workers : pc[w] \in {"execute", "job_finished", "death_inc",
                              "death_read", "pending_dec"}}

\* Jobs that went through JobFinishedCallback up to the decrement.
Reported == Len(dequeue_log) - Cardinality(WorkersHoldingJob)

\* Copy/Compression jobs pushed and not yet past InvokeExternalCallback.
RealJobsToReport ==
  Cardinality({i \in 1..Len(job_queue) : ~IsDeathSentenceJob(job_queue[i])})
  + Cardinality({w \in Workers : pc[w] \in {"execute", "job_finished"}
                                   /\ ~IsDeathSentenceJob(job[w])})

AllWorkersTerminated == \A w \in ActiveWorkers : pc[w] = "terminated"

\* Workers whose death sentence has been counted.
WorkersCounted ==
  {w \in Workers : ~running[w]
                     /\ pc[w] \in {"death_read", "pending_dec", "pending_read",
                                   "terminated"}}

\* Workers that are past the test guarding TearDown.
WorkersPastTearDownTest ==
  {w \in Workers : ~running[w]
                     /\ pc[w] \in {"pending_dec", "pending_read", "terminated"}}

\* The step in which client c returns from WaitForUpload.
WaitForUploadReturns(c) == pc[c] = "wait_for_upload" /\ pc'[c] = "idle"

\* The step in which worker w runs JobFinishedCallback up to
\* InvokeExternalCallback.
Reports(w) == pc[w] = "job_finished" /\ pc'[w] # "job_finished" /\ ~aborted'

\* The jobs (by seq) in the queue, removed from it so far, and held by a
\* worker between AcquireJob and the end of its report.
QueueSeqs == {job_queue[i].seq : i \in 1..Len(job_queue)}

RemovedSeqs == {dequeue_log[i] : i \in 1..Len(dequeue_log)}

HeldSeqs == {job[w].seq : w \in WorkersHoldingJob}

\* The jobs pushed before the first death sentence.
PushedBeforeShutdown ==
  IF first_death = 0 THEN 1..enqueued ELSE 1..(first_death - 1)

\* The step in which worker w removes a death sentence from the queue.
AcquiresDeathSentence(w) ==
  /\ pc[w] = "acquire"
  /\ pc'[w] = "job_finished"
  /\ IsDeathSentenceJob(job'[w])

\* The Copy/Compression jobs in the queue.
RealJobsInQueue ==
  {i \in 1..Len(job_queue) : ~IsDeathSentenceJob(job_queue[i])}

\* A producer is blocked in Schedule on a full queue, or woken and not yet
\* through its push.
BlockedInSchedule(c) == pc[c] = "wait_not_full"

\* The step in which worker w removes the front job from the queue.
RemovesJob(w) == pc[w] = "acquire" /\ pc'[w] \in {"execute", "job_finished"}

\* The producers woken from job_queue_cond_not_full_ in a step.
WokenNotFull == {t \in Threads : pc[t] = "wait_not_full" /\ pc'[t] = "schedule"}

\* Workers inside JobFinishedCallback.
InJobFinishedCallback ==
  {w \in Workers : pc[w] \in {"job_finished", "death_inc", "death_read",
                              "pending_dec", "pending_read"}}

\* The step in which worker w calls TearDown.
RunsTearDown(w) ==
  /\ pc[w] = "death_read"
  /\ pc'[w] = "pending_dec"
  /\ teardown_count' = teardown_count + 1

(* ------------------------------- claims ------------------------------- *)

\* C1: in every reachable state the job queue holds at least 0 and at most
\* max_pending_jobs jobs, whatever the interleaving of producers and workers.
C1_QueueBounded == Len(job_queue) >= 0 /\ Len(job_queue) <= max_pending_jobs

\* C1 witness: the queue is full at the largest capacity while a producer is
\* blocked on "not full" and another thread is inside Schedule too.
C1_Witness ==
  /\ max_pending_jobs = MaxCapacity
  /\ Len(job_queue) = max_pending_jobs
  /\ \E c, d \in Clients : /\ c # d
                           /\ pc[c] = "wait_not_full"
                           /\ pc[d] \in {"schedule", "wait_not_full"}

\* C2: with a callback registered and the N Copy/Process submissions all
\* made before the one EndOfTransaction, the callback fires exactly once per
\* reported Copy/Compression job and never for a death sentence; once every
\* worker has terminated exactly N callbacks have fired; and WaitForUpload,
\* returning after EndOfTransaction was called, returns only when all N have
\* fired.
C2_CallbacksAndWait ==
  /\ []((callback /\ ~aborted) => callbacks_fired = submitted - RealJobsToReport)
  /\ [](~callback => callbacks_fired = 0)
  /\ []((callback /\ orderly /\ AllWorkersTerminated) => callbacks_fired = submitted)
  /\ [][\A c \in Clients :
          (WaitForUploadReturns(c) /\ callback /\ orderly /\ eot_calls = 1)
            => (callbacks_fired = submitted /\ RealJobsToReport = 0)]_vars

\* C2 witness: N = MaxJobs submissions, then EndOfTransaction; all callbacks
\* have fired, the pool is down, and a WaitForUpload caller is about to
\* return.
C2_Witness ==
  /\ callback /\ orderly /\ transaction_ends
  /\ submitted = MaxJobs /\ callbacks_fired = MaxJobs
  /\ AllWorkersTerminated /\ number_of_workers = MaxWorkers
  /\ jobs_pending = 0
  /\ \E c \in Clients : pc[c] = "wait_for_upload"

\* C3: death_sentences_executed_ never exceeds the number of workers and
\* counts each worker's death sentence exactly once; TearDown runs only when
\* the counter equals the number of workers, and it has run once every
\* worker is past the test that guards it.
C3_DeathSentences ==
  /\ [](death_sentences_executed <= number_of_workers)
  /\ [](~aborted => death_sentences_executed = Cardinality(WorkersCounted))
  /\ [](teardown_count > 0 => death_sentences_executed = number_of_workers)
  /\ [](WorkersPastTearDownTest = ActiveWorkers => teardown_count >= 1)
  /\ [](AllWorkersTerminated => death_sentences_executed = number_of_workers)
  /\ [][teardown_count' # teardown_count
          => death_sentences_executed = number_of_workers]_vars

\* C3 witness: K = MaxWorkers workers have all terminated after one
\* EndOfTransaction and teardown has run.
C3_Witness ==
  /\ number_of_workers = MaxWorkers
  /\ eot_calls = 1
  /\ AllWorkersTerminated
  /\ death_sentences_executed = MaxWorkers
  /\ teardown_count >= 1

\* C4 (as claimed): a thread waiting in WaitForUpload while jobs_pending_ is
\* zero eventually returns.
C4_NoLostWakeup ==
  \A c \in Clients :
    (pc[c] \in {"cond_wait_all_done", "wait_all_done"} /\ jobs_pending = 0)
      ~> (pc[c] = "idle")

\* C5: while the process lives, jobs_pending_ equals the number of jobs
\* pushed and not yet reported (in the queue or held by a worker), so it is
\* never negative and is zero exactly when every pushed job has been
\* reported.
C5_PendingExact ==
  /\ jobs_pending >= 0
  /\ ~aborted =>
       /\ jobs_pending = enqueued - Reported
       /\ jobs_pending = Len(job_queue) + Cardinality(WorkersHoldingJob)
       /\ (jobs_pending = 0 <=> (job_queue = <<>> /\ WorkersHoldingJob = {}))

\* C5 witness: jobs of every kind were pushed and all have been reported.
C5_Witness ==
  /\ jobs_pending = 0
  /\ submitted = MaxJobs
  /\ enqueued > submitted
  /\ Reported = enqueued

\* C6 (as claimed): once transaction_ends_ is true no Copy or Process call
\* is accepted (no such call gets to Schedule).
C6_NoSubmissionAfterEnd ==
  [][transaction_ends
       => ~(\E c \in Clients : /\ pc[c] = "idle"
                               /\ pc'[c] = "schedule"
                               /\ ~IsDeathSentenceJob(job'[c]))]_vars

\* C7 (as claimed): of any two EndOfTransaction calls the second fails the
\* assert, so at most number_of_workers death sentences are ever pushed.
C7_LatchOnce ==
  /\ eot_calls <= 1
  /\ enqueued - submitted <= number_of_workers

\* C8: once EndOfTransaction has been called (once, after the submissions),
\* it eventually returns, every worker eventually terminates on a death
\* sentence of its own, and teardown eventually runs.
C8_ShutdownCompletes ==
  (eot_calls = 1)
    ~> (/\ transaction_ends
        /\ AllWorkersTerminated
        /\ death_sentences_executed = number_of_workers
        /\ teardown_count >= 1
        /\ \A c \in Clients : pc[c] \notin {"schedule", "wait_not_full", "eot_end"})

\* C8 witness: a pool with more workers than queue slots is completely shut
\* down, after real jobs were submitted.
C8_Witness ==
  /\ max_pending_jobs < number_of_workers
  /\ submitted = MaxJobs
  /\ transaction_ends
  /\ AllWorkersTerminated
  /\ teardown_count >= 1

\* C9: jobs leave the queue in the order in which they were pushed: the
\* i-th job removed is the i-th job pushed.
C9_Fifo == \A i \in 1..Len(dequeue_log) : dequeue_log[i] = i

\* C9 witness: two producers were in Schedule at once, and several jobs
\* have been removed while others still wait in the queue.
C9_Witness ==
  /\ Len(dequeue_log) >= 2
  /\ Len(job_queue) >= 2
  /\ \E c \in Clients : pc[c] = "wait_not_full"

\* C10: the report of a job adds one to jobs_failed_ exactly when the job
\* failed, leaves the queue alone and passes the job's return code to the
\* callback; the job is then taken off jobs_pending_ like any other, and a
\* worker terminates only on a death sentence, never on a failure.
C10_FailureIsolated ==
  /\ [][\A w \in Workers :
          Reports(w) =>
            /\ jobs_failed' = jobs_failed + (IF job[w].successful THEN 0 ELSE 1)
            /\ job_queue' = job_queue
            /\ jobs_pending' = jobs_pending
            /\ (callback /\ ~IsDeathSentenceJob(job[w]))
                 => (/\ callbacks_fired' = callbacks_fired + 1
                     /\ last_callback' = job[w].return_code)
            /\ pc'[w] = IF IsDeathSentenceJob(job[w]) THEN "death_inc"
                        ELSE "pending_dec"]_vars
  /\ [][\A w \in Workers :
          (pc[w] = "pending_dec" /\ pc'[w] # "pending_dec" /\ ~aborted')
            => jobs_pending' = jobs_pending - 1]_vars
  /\ [](\A w \in Workers : pc[w] = "terminated" => ~running[w])
  /\ [](jobs_failed <= submitted)

\* C10 witness: the only worker reported a failed job, the callback got the
\* non-zero code, and the same worker is executing a later job.
C10_Witness ==
  /\ number_of_workers = 1
  /\ callback
  /\ jobs_failed = 1
  /\ last_callback = 1
  /\ jobs_pending = 1
  /\ pc[1] = "execute"

\* C11 (as claimed): Construct never aborts the process: when the definition
\* string is invalid or Initialize fails it returns NULL, and it returns a
\* dispatcher only for a valid definition.
C11_ConstructReturnsNull ==
  construct_pc = "done" =>
    /\ construct_result # "aborted"
    /\ ~IsValid(spooler_definition) => construct_result = "NULL"
    /\ construct_result = "spooler" => IsValid(spooler_definition)

\* C13: a definition string parses as valid exactly when it has the form
\* driver:description,outPipe,inPipe with driver local or riak; the fields of
\* a valid definition are the corresponding parts of the string (put back
\* together they give the string, and no field holds a comma); and
\* max_pending_jobs is the caller's value, valid or not.
C13_DefinitionParsing ==
  construct_pc # "parse" =>
    /\ spooler_definition.max_pending_jobs = max_pending_jobs
    /\ IsValid(spooler_definition) <=> WellFormed(definition_string)
    /\ IsValid(spooler_definition) =>
         /\ spooler_definition.driver_type \in {"Local", "Riak"}
         /\ definition_string =
              NameOf(spooler_definition.driver_type) \o <<":">>
                \o spooler_definition.spooler_description \o <<",">>
                \o spooler_definition.paths_out_pipe \o <<",">>
                \o spooler_definition.digests_in_pipe
         /\ "," \notin Chars(spooler_definition.spooler_description)
         /\ "," \notin Chars(spooler_definition.paths_out_pipe)
         /\ "," \notin Chars(spooler_definition.digests_in_pipe)

\* C13 witness: a riak definition with a description that holds a colon and
\* two different non-empty pipes, one with a colon of its own, has been
\* parsed.
C13_Witness ==
  /\ construct_pc = "done"
  /\ IsValid(spooler_definition)
  /\ spooler_definition.driver_type = "Riak"
  /\ ":" \in Chars(spooler_definition.spooler_description)
  /\ spooler_definition.paths_out_pipe = <<"o">>
  /\ spooler_definition.digests_in_pipe = <<":", "i">>
  /\ max_pending_jobs = MaxCapacity

\* C12: SetCallback while a callback is registered never returns quietly:
\* it fails the assert and registers nothing; with none registered (at the
\* start or after UnsetCallback) it is accepted; UnsetCallback leaves none
\* registered; and while none is registered no finished job invokes a
\* callback.
C12_OneCallback ==
  /\ [](\A c \in Clients :
          (callback /\ pc[c] = "idle" /\ BeforeSubmissions)
            => ENABLED <<SetCallback(c)>>_vars)
  /\ [][\A c \in Clients :
          SetCallback(c) =>
            IF callback THEN aborted' /\ callback' = callback
                        ELSE callback' /\ ~aborted']_vars
  /\ [][\A c \in Clients : UnsetCallback(c) => (~callback' /\ ~aborted')]_vars
  /\ [][~callback => callbacks_fired' = callbacks_fired]_vars
  /\ [](callbacks_fired > 0 => callback)

\* C12 witness: a second SetCallback met a registered callback and the
\* process aborted, the callback still registered.
C12_Witness ==
  /\ aborted
  /\ callback
  /\ eot_calls = 0
  /\ enqueued = 0

\* C14, the part about single processing: every pushed job is in the queue
\* or has been removed from it exactly once, never both; a removed job is
\* held by exactly one worker or has been reported; no job is reported more
\* than once; and no worker ever pushes a job.
C14_AtMostOnce ==
  /\ Cardinality(QueueSeqs) = Len(job_queue)
  /\ Cardinality(RemovedSeqs) = Len(dequeue_log)
  /\ QueueSeqs \cap RemovedSeqs = {}
  /\ QueueSeqs \cup RemovedSeqs = 1..enqueued
  /\ Len(reports) = enqueued
  /\ \A s \in 1..enqueued : reports[s] <= 1
  /\ \A s \in QueueSeqs : reports[s] = 0
  /\ ~aborted =>
       /\ HeldSeqs \subseteq RemovedSeqs
       /\ Cardinality(HeldSeqs) = Cardinality(WorkersHoldingJob)
       /\ \A s \in RemovedSeqs \ HeldSeqs : reports[s] = 1
       /\ \A w \in Workers : pc[w] \notin {"schedule", "wait_not_full"}

\* C14 (as claimed): no job is lost or processed twice: besides the above,
\* once the last worker has terminated every job that Schedule appended has
\* been removed from the queue and reported exactly once.
C14_NoJobLost ==
  /\ C14_AtMostOnce
  /\ AllWorkersTerminated =>
       \A s \in 1..enqueued : s \in RemovedSeqs /\ reports[s] = 1

\* C15: no death sentence is removed from the queue while a job pushed
\* before the first death sentence is still in it, and when TearDown runs
\* every job pushed before the first death sentence has been executed and
\* reported, with its callback fired when one is registered.
C15_DrainBeforeShutdown ==
  /\ [][\A w \in Workers :
          AcquiresDeathSentence(w) => QueueSeqs \cap PushedBeforeShutdown = {}]_vars
  /\ [][teardown_count' # teardown_count =>
          /\ first_death > 0
          /\ \A s \in PushedBeforeShutdown :
               reports[s] = 1 /\ s \in RemovedSeqs \ HeldSeqs
          /\ callback => callbacks_fired >= first_death - 1]_vars

\* C15 witness: MaxJobs jobs were pushed before the first death sentence,
\* a callback is registered, and a full pool has run TearDown.
C15_Witness ==
  /\ first_death = MaxJobs + 1
  /\ callback
  /\ number_of_workers = MaxWorkers
  /\ teardown_count >= 1
  /\ callbacks_fired = MaxJobs

\* C16 (as claimed): with submissions overlapping the EndOfTransaction call,
\* no accepted Copy/Compression job is left in the queue once the last
\* worker has terminated.
C16_AcceptedJobsDrain == AllWorkersTerminated => RealJobsInQueue = {}

C18_TearDownOnce == teardown_count <= 1

\* C19 (as claimed): when a worker calls TearDown no other worker is inside
\* JobFinishedCallback.
C19_NoReportDuringTearDown ==
  [][\A w \in Workers :
       RunsTearDown(w) => InJobFinishedCallback \ {w} = {}]_vars

====
